---- MODULE Spec2Model ----
(***************************************************************************)
(* One /analyze request of backend/main.py: API-key check, text           *)
(* validation, emotion / sentiment classification, keyword extraction,    *)
(* synonym expansion, query formulation, literature search and report     *)
(* composition.                                                           *)
(*                                                                        *)
(* Strings are sequences of one-character strings, so that joining,       *)
(* truncating and underscore replacement act on characters.  Scores are   *)
(* integers in thousandths (0.6 is 600).  The collaborators (classifiers, *)
(* keyword extractor, WordNet, the embedding model, the Semantic Scholar  *)
(* endpoint) are stubs whose responses are fixed in the initial state;    *)
(* the iteration order of a Python set is chosen when the set is          *)
(* listed.                                                                *)
(***************************************************************************)
EXTENDS Integers, Sequences, FiniteSets, TLC

VARIABLES
    request,            \* AnalysisRequest and whether X-API-Key matches
    stub,               \* the collaborators' responses for this request
    pc,                 \* position of the handler
    status,             \* HTTP status of the response, 0 while running
    text,               \* length of request.text.strip()
    sorted_emotions,    \* line 108
    sentiment_result,   \* line 109
    keywords,           \* lines 112-117
    primary_terms,      \* line 67
    idx,                \* position of the for loop of line 49 (1-based)
    wordnet_syns,       \* line 51
    synonyms,           \* the set of line 47
    expanded_synonyms,  \* line 68
    query_terms,        \* line 70
    query,              \* line 71, the value passed to search_semantic_scholar
    academic_sources,   \* line 120 / 122
    report,             \* the returned dictionary, lines 124-164
    log,                \* what the print calls of lines 61 and 86 wrote
    fetch_calls,        \* invocations of fetch_academic_articles
    http_calls          \* invocations of requests.get (line 82)

vars == <<request, stub, pc, status, text, sorted_emotions, sentiment_result,
          keywords, primary_terms, idx, wordnet_syns, synonyms,
          expanded_synonyms, query_terms, query, academic_sources, report,
          log, fetch_calls, http_calls>>

(***************************************************************************)
(* Program constants                                                      *)
(***************************************************************************)
MaxTextLen == 1000
PrimaryCount == 3
MaxQueryLen == 300
SimThreshold == 600
MixedGap == 200
DiversityFloor == 100
VeryHigh == 900
High == 700
Moderate == 500

(***************************************************************************)
(* Bounds of the model                                                    *)
(***************************************************************************)
MaxEmotions == 3
MaxKeywords == 4

(***************************************************************************)
(* Strings                                                                *)
(***************************************************************************)
Min(a, b) == IF a <= b THEN a ELSE b

Range(s) == {s[k] : k \in 1..Len(s)}

NoDup(s) == \A j, k \in 1..Len(s) : j # k => s[j] # s[k]

IsPrefix(p, s) == Len(p) <= Len(s) /\ SubSeq(s, 1, Len(p)) = p

Perms(S) == {f \in [1..Cardinality(S) -> S] : \A j, k \in 1..Cardinality(S) : j # k => f[j] # f[k]}

\* " ".join(terms)
RECURSIVE Join(_)
Join(terms) ==
    IF terms = <<>> THEN <<>>
    ELSE IF Len(terms) = 1 THEN terms[1]
    ELSE terms[1] \o <<" ">> \o Join(Tail(terms))

\* s[:n] without the cut
NoTruncate(s, n) == s

\* s[:n]
Truncate(s, n) == SubSeq(s, 1, Min(n, Len(s)))

\* name.replace('_', ' ')
ReplaceUnderscore(w) == [k \in 1..Len(w) |-> IF w[k] = "_" THEN " " ELSE w[k]]

\* list(dict.fromkeys(terms)): first occurrence kept, order preserved
RECURSIVE Dedup(_)
Dedup(terms) ==
    IF terms = <<>> THEN <<>>
    ELSE LET front == Dedup(SubSeq(terms, 1, Len(terms) - 1))
             last == terms[Len(terms)]
         IN IF last \in Range(front) THEN front ELSE Append(front, last)

\* keywords[:3]
FirstTerms(kws) == SubSeq(kws, 1, Min(PrimaryCount, Len(kws)))

(***************************************************************************)
(* The vocabulary of the stubs                                            *)
(***************************************************************************)
LongLen == MaxQueryLen - 4

WordA == <<"a">>
WordB == <<"b">>
WordAB == <<"a", "b">>
PhraseAB == <<"a", " ", "b">>
LemmaA_B == <<"a", "_", "b">>
WordLong == [k \in 1..LongLen |-> "x"]

\* what the keyword extractor can rank: single words and a 2-token phrase
Vocabulary == {WordA, WordAB, PhraseAB, WordLong}

\* lemma.name() for syn in wordnet.synsets(word) for lemma in syn.lemmas()
Lemmas(word) ==
    IF word = WordA THEN <<WordA, WordB, WordA>>
    ELSE IF word = WordAB THEN <<LemmaA_B, WordB>>
    ELSE IF word = PhraseAB THEN <<WordB>>
    ELSE <<>>

\* the set comprehension of get_wordnet_synonyms
SynonymSet(word) == {ReplaceUnderscore(Lemmas(word)[k]) : k \in 1..Len(Lemmas(word))}

\* cosine similarities the embedding stub can report, around the 0.6 threshold
Scores == {200, 600, 601}

\* the responses of WordNet and of the embedding model for one primary term:
\* fault "lookup" is an exception in wordnet.synsets, fault "embed" one in
\* model.encode / pytorch_cos_sim, and sim the similarity of each candidate
SynStubFor(word) ==
    LET none == [c \in SynonymSet(word) |-> 0]
    IN  {[fault |-> "lookup", sim |-> none]}
        \cup (IF SynonymSet(word) = {}
              THEN {[fault |-> "none", sim |-> none]}
              ELSE {[fault |-> "embed", sim |-> none]}
                   \cup {[fault |-> "none", sim |-> f] : f \in [SynonymSet(word) -> Scores]})

RECURSIVE SynStubs(_)
SynStubs(terms) ==
    IF terms = <<>> THEN {<<>>}
    ELSE {<<h>> \o t : h \in SynStubFor(Head(terms)), t \in SynStubs(Tail(terms))}

\* every candidate of every term accepted, no fault
PlainSynStub(terms) ==
    [k \in 1..Len(terms) |->
        [fault |-> "none", sim |-> [c \in SynonymSet(terms[k]) |-> SimThreshold + 1]]]

\* keyword lists the extractor can return: distinct phrases, most relevant first
KeywordLists ==
    UNION {{s \in [1..n -> Vocabulary] : NoDup(s)} : n \in 0..MaxKeywords}

\* labels of the emotion model, in the order the classifier lists them
EmotionLabels == <<"anger", "disgust", "fear", "joy", "neutral", "sadness", "surprise">>

EmotionScores == {100, 400, 450, 550, 750, 950}

EmotionOutputs == UNION {[1..n -> EmotionScores] : n \in 1..MaxEmotions}

\* emotion_classifier(text)[0]
EmotionResults(scores) ==
    [k \in 1..Len(scores) |-> [label |-> EmotionLabels[k], score |-> scores[k]]]

\* raw records of the search response; a record may lack any field.  The
\* endpoint answers with a list of records ("ok"), or fails: no answer in time,
\* a non-2xx status, a body that is no JSON, a JSON body that is no object
FullPaper == [title |-> "T", year |-> 2020, url |-> "u", citationCount |-> 7]
BarePaper == [year |-> 2021]

Endpoints ==
    {[kind |-> "ok", data |-> <<>>],
     [kind |-> "ok", data |-> <<FullPaper, BarePaper>>],
     [kind |-> "timeout", data |-> <<>>],
     [kind |-> "http_error", data |-> <<>>],
     [kind |-> "bad_json", data |-> <<>>],
     [kind |-> "bad_shape", data |-> <<>>]}

TextInputs == [ws : {0, 1}, body : {0, 1, MaxTextLen, MaxTextLen + 1}]

Requests == [key_ok : BOOLEAN, text : TextInputs, find_sources : BOOLEAN]

BaseRequest == [key_ok |-> TRUE, text |-> [ws |-> 0, body |-> 1], find_sources |-> TRUE]
BaseEmotion == [ok |-> TRUE, scores |-> <<550, 450>>]
FailedEmotion == [ok |-> FALSE, scores |-> <<>>]
BaseSentiment == [ok |-> TRUE, label |-> "POSITIVE", score |-> 999]
FailedSentiment == [ok |-> FALSE, label |-> "", score |-> 0]
BaseEndpoint == [kind |-> "ok", data |-> <<FullPaper, BarePaper>>]
FailedKeywords == [ok |-> FALSE, phrases |-> <<>>]

StubOf(e, s, k, st, p) ==
    [emotion |-> e, sentiment |-> s, keywords |-> k, syn |-> st, endpoint |-> p]

\* requests and collaborator failures of every kind, with one short keyword list
RequestInputs ==
    \E r \in Requests, e \in {BaseEmotion, FailedEmotion},
       s \in {BaseSentiment, FailedSentiment},
       k \in {FailedKeywords, [ok |-> TRUE, phrases |-> <<>>],
              [ok |-> TRUE, phrases |-> <<WordAB>>]},
       p \in Endpoints :
        /\ request = r
        /\ stub = StubOf(e, s, k, PlainSynStub(FirstTerms(k.phrases)), p)

\* every classifier output, the rest fixed
EmotionInputs ==
    \E e \in EmotionOutputs :
        /\ request = BaseRequest
        /\ stub = StubOf([ok |-> TRUE, scores |-> e], BaseSentiment,
                         [ok |-> TRUE, phrases |-> <<>>], <<>>, BaseEndpoint)

\* every keyword list with every WordNet / embedding response, the rest fixed
QueryInputs ==
    \E k \in KeywordLists :
        \E st \in SynStubs(FirstTerms(k)) :
            /\ request = BaseRequest
            /\ stub = StubOf(BaseEmotion, BaseSentiment, [ok |-> TRUE, phrases |-> k],
                             st, BaseEndpoint)

NoReport == [produced |-> FALSE]

Init ==
    /\ (RequestInputs \/ EmotionInputs \/ QueryInputs)
    /\ pc = "auth"
    /\ status = 0
    /\ text = 0
    /\ sorted_emotions = <<>>
    /\ sentiment_result = FailedSentiment
    /\ keywords = <<>>
    /\ primary_terms = <<>>
    /\ idx = 0
    /\ wordnet_syns = <<>>
    /\ synonyms = {}
    /\ expanded_synonyms = <<>>
    /\ query_terms = <<>>
    /\ query = <<>>
    /\ academic_sources = <<>>
    /\ report = NoReport
    /\ log = <<>>
    /\ fetch_calls = 0
    /\ http_calls = 0

(***************************************************************************)
(* Pure functions of the handler                                          *)
(***************************************************************************)
\* request.text.strip(): the surrounding whitespace is dropped
Strip(t) == t.body

\* len(request.text)
RawLen(t) == t.ws + t.body

\* not text or len(text) > 1000
InvalidText(n) == n = 0 \/ n > MaxTextLen

\* sorted(..., key=score, reverse=True): stable, equal scores keep their order
InsertDesc(e, sorted) ==
    LET k == Cardinality({j \in 1..Len(sorted) : sorted[j].score >= e.score})
    IN  SubSeq(sorted, 1, k) \o <<e>> \o SubSeq(sorted, k + 1, Len(sorted))

RECURSIVE SortDesc(_)
SortDesc(es) ==
    IF es = <<>> THEN <<>>
    ELSE InsertDesc(es[Len(es)], SortDesc(SubSeq(es, 1, Len(es) - 1)))

\* the list comprehension of line 58 with >= for >
RECURSIVE ValidSynonymsGe(_, _)
ValidSynonymsGe(syns, sims) ==
    IF syns = <<>> THEN <<>>
    ELSE (IF Head(sims) >= SimThreshold THEN <<Head(syns)>> ELSE <<>>)
         \o ValidSynonymsGe(Tail(syns), Tail(sims))

\* [syn for syn, score in zip(wordnet_syns, similarities[0]) if score.item() > 0.6]
RECURSIVE ValidSynonyms(_, _)
ValidSynonyms(syns, sims) ==
    IF syns = <<>> THEN <<>>
    ELSE (IF Head(sims) > SimThreshold THEN <<Head(syns)>> ELSE <<>>)
         \o ValidSynonyms(Tail(syns), Tail(sims))

\* an except clause around the whole loop: the first failure ends the iteration
AbortOnError(i, n) == n + 1

\* the except clause of line 60 is inside the for loop: the next keyword follows
NextAfterError(i, n) == i + 1

\* synonyms ahead of the primary terms
QueryTermsSynonymsFirst(primary, expanded) == Dedup(expanded \o primary)

\* list(dict.fromkeys(primary_terms + expanded_synonyms))
QueryTerms(primary, expanded) == Dedup(primary \o expanded)

\* the condition of line 121 without the find_sources flag
SourcesWantedNoFlag == keywords # <<>>

\* the condition of line 121 without the keyword test
SourcesWantedNoKeywords == request.find_sources

\* request.find_sources and keywords
SourcesWanted == request.find_sources /\ keywords # <<>>

\* the comparison of line 139 with <= for <
IsMixedLe(es) == Len(es) > 1 /\ es[1].score - es[2].score <= MixedGap

\* len(sorted_emotions) > 1 and sorted_emotions[0]['score'] - sorted_emotions[1]['score'] < 0.2
IsMixed(es) == Len(es) > 1 /\ es[1].score - es[2].score < MixedGap

\* round(len([e for e in sorted_emotions if e['score'] > 0.1]) / len(sorted_emotions), 3)
DiversityScore(es) ==
    LET c == Cardinality({k \in 1..Len(es) : es[k].score > DiversityFloor})
    IN  (2000 * c + Len(es)) \div (2 * Len(es))

get_emotional_intensity(score) ==
    IF score >= VeryHigh THEN "very high"
    ELSE IF score >= High THEN "high"
    ELSE IF score >= Moderate THEN "moderate"
    ELSE "low"

\* paper.get(field, default)
Get(paper, name, default) == IF name \in DOMAIN paper THEN paper[name] ELSE default

\* one entry of "academic_sources", lines 151-158
NormalizePaper(paper) ==
    [title |-> Get(paper, "title", "Untitled"),
     year |-> Get(paper, "year", ""),
     url |-> Get(paper, "url", "#"),
     citationCount |-> Get(paper, "citationCount", 0)]

(***************************************************************************)
(* The handler, one action per step                                       *)
(***************************************************************************)
synonym_locals == <<primary_terms, idx, wordnet_syns, synonyms, expanded_synonyms>>
query_locals == <<query_terms, query>>
classified == <<text, sorted_emotions, sentiment_result, keywords>>
counters == <<fetch_calls, http_calls>>

\* lines 99-100
CheckApiKey ==
    /\ pc = "auth"
    /\ IF request.key_ok
       THEN pc' = "validate" /\ status' = status
       ELSE pc' = "done" /\ status' = 401
    /\ UNCHANGED <<request, stub, classified, synonym_locals, query_locals,
                   academic_sources, report, log, counters>>

\* lines 102-104
ValidateText ==
    /\ pc = "validate"
    /\ text' = Strip(request.text)
    /\ IF InvalidText(text')
       THEN pc' = "done" /\ status' = 400
       ELSE pc' = "emotion" /\ status' = status
    /\ UNCHANGED <<request, stub, sorted_emotions, sentiment_result, keywords,
                   synonym_locals, query_locals, academic_sources, report, log,
                   counters>>

\* lines 107-108; an exception of the classifier reaches line 166
ClassifyEmotion ==
    /\ pc = "emotion"
    /\ IF stub.emotion.ok
       THEN /\ sorted_emotions' = SortDesc(EmotionResults(stub.emotion.scores))
            /\ pc' = "sentiment" /\ status' = status
       ELSE /\ sorted_emotions' = sorted_emotions
            /\ pc' = "done" /\ status' = 500
    /\ UNCHANGED <<request, stub, text, sentiment_result, keywords, synonym_locals,
                   query_locals, academic_sources, report, log, counters>>

\* line 109
AnalyzeSentiment ==
    /\ pc = "sentiment"
    /\ IF stub.sentiment.ok
       THEN /\ sentiment_result' = stub.sentiment
            /\ pc' = "keywords" /\ status' = status
       ELSE /\ sentiment_result' = sentiment_result
            /\ pc' = "done" /\ status' = 500
    /\ UNCHANGED <<request, stub, text, sorted_emotions, keywords, synonym_locals,
                   query_locals, academic_sources, report, log, counters>>

\* lines 112-117
ExtractKeywords ==
    /\ pc = "keywords"
    /\ IF stub.keywords.ok
       THEN /\ keywords' = stub.keywords.phrases
            /\ pc' = "sources" /\ status' = status
       ELSE /\ keywords' = keywords
            /\ pc' = "done" /\ status' = 500
    /\ UNCHANGED <<request, stub, text, sorted_emotions, sentiment_result,
                   synonym_locals, query_locals, academic_sources, report, log,
                   counters>>

\* lines 120-122, then 91, 67 and 47: the call chain down to the for loop
DecideSources ==
    /\ pc = "sources"
    /\ academic_sources' = <<>>
    /\ IF SourcesWanted
       THEN /\ fetch_calls' = fetch_calls + 1
            /\ primary_terms' = FirstTerms(keywords)
            /\ synonyms' = {}
            /\ idx' = 1
            /\ pc' = "lookup"
       ELSE /\ UNCHANGED <<fetch_calls, primary_terms, synonyms, idx>>
            /\ pc' = "compose"
    /\ UNCHANGED <<request, stub, status, classified, wordnet_syns,
                   expanded_synonyms, query_locals, report, log, http_calls>>

\* lines 49-53 for primary_terms[idx]; list(set) of line 43 comes in any order
LookupSynonyms ==
    /\ pc = "lookup"
    /\ idx <= Len(primary_terms)
    /\ LET word == primary_terms[idx]
           n == Len(primary_terms)
       IN  IF stub.syn[idx].fault = "lookup"
           THEN /\ log' = Append(log, [error |-> "synonym", keyword |-> idx])
                /\ idx' = NextAfterError(idx, n)
                /\ pc' = pc
                /\ wordnet_syns' = wordnet_syns
           ELSE IF SynonymSet(word) = {}
           THEN /\ wordnet_syns' = <<>>
                /\ idx' = idx + 1
                /\ pc' = pc
                /\ log' = log
           ELSE /\ \E order \in Perms(SynonymSet(word)) : wordnet_syns' = order
                /\ idx' = idx
                /\ pc' = "encode"
                /\ log' = log
    /\ UNCHANGED <<request, stub, status, classified, primary_terms, synonyms,
                   expanded_synonyms, query_locals, academic_sources, report,
                   counters>>

\* lines 55-61 for primary_terms[idx]
EncodeAndFilter ==
    /\ pc = "encode"
    /\ LET n == Len(primary_terms)
           similarities == [k \in 1..Len(wordnet_syns) |-> stub.syn[idx].sim[wordnet_syns[k]]]
       IN  IF stub.syn[idx].fault = "embed"
           THEN /\ log' = Append(log, [error |-> "synonym", keyword |-> idx])
                /\ idx' = NextAfterError(idx, n)
                /\ synonyms' = synonyms
           ELSE /\ synonyms' = synonyms \cup Range(ValidSynonyms(wordnet_syns, similarities))
                /\ idx' = idx + 1
                /\ log' = log
    /\ pc' = "lookup"
    /\ UNCHANGED <<request, stub, status, classified, primary_terms, wordnet_syns,
                   expanded_synonyms, query_locals, academic_sources, report,
                   counters>>

\* line 63: list(synonyms) lists the set in the order of its hash table
ReturnSynonyms ==
    /\ pc = "lookup"
    /\ idx > Len(primary_terms)
    /\ \E order \in Perms(synonyms) : expanded_synonyms' = order
    /\ synonyms' = {}
    /\ wordnet_syns' = <<>>
    /\ idx' = 0
    /\ pc' = "join"
    /\ UNCHANGED <<request, stub, status, classified, primary_terms, query_locals,
                   academic_sources, report, log, counters>>

\* lines 70-71
FormulateQuery ==
    /\ pc = "join"
    /\ query_terms' = QueryTerms(primary_terms, expanded_synonyms)
    /\ query' = Truncate(Join(query_terms'), MaxQueryLen)
    /\ pc' = "search"
    /\ UNCHANGED <<request, stub, status, classified, synonym_locals,
                   academic_sources, report, log, counters>>

\* lines 73-87.  A timeout, a non-2xx status (raise_for_status) and a body that
\* is no JSON (requests.exceptions.JSONDecodeError) raise a RequestException,
\* which line 85 catches.  A JSON body that is no object has no .get: the
\* AttributeError passes line 85 and reaches line 166.
SearchSemanticScholar ==
    /\ pc = "search"
    /\ http_calls' = http_calls + 1
    /\ LET kind == stub.endpoint.kind
       IN  CASE kind = "ok" ->
                    /\ academic_sources' = stub.endpoint.data
                    /\ log' = log
                    /\ pc' = "compose" /\ status' = status
              [] kind \in {"timeout", "http_error", "bad_json"} ->
                    /\ log' = Append(log, [error |-> "search", keyword |-> 0])
                    /\ academic_sources' = <<>>
                    /\ pc' = "compose" /\ status' = status
              [] kind = "bad_shape" ->
                    /\ log' = log
                    /\ academic_sources' = academic_sources
                    /\ pc' = "done" /\ status' = 500
    /\ UNCHANGED <<request, stub, classified, synonym_locals, query_locals, report,
                   fetch_calls>>

\* lines 124-164
ComposeReport ==
    /\ pc = "compose"
    /\ report' =
         [produced |-> TRUE,
          sentiment |-> [label |-> sentiment_result.label, score |-> sentiment_result.score],
          primary_emotion |->
              [label |-> sorted_emotions[1].label,
               score |-> sorted_emotions[1].score,
               intensity |-> get_emotional_intensity(sorted_emotions[1].score)],
          secondary_emotions |-> Tail(sorted_emotions),
          is_mixed |-> IsMixed(sorted_emotions),
          diversity_score |-> DiversityScore(sorted_emotions),
          key_phrases |-> keywords,
          academic_sources |->
              [k \in 1..Len(academic_sources) |-> NormalizePaper(academic_sources[k])]]
    /\ status' = 200
    /\ pc' = "done"
    /\ UNCHANGED <<request, stub, classified, synonym_locals, query_locals,
                   academic_sources, log, counters>>

Next ==
    \/ CheckApiKey
    \/ ValidateText
    \/ ClassifyEmotion
    \/ AnalyzeSentiment
    \/ ExtractKeywords
    \/ DecideSources
    \/ LookupSynonyms
    \/ EncodeAndFilter
    \/ ReturnSynonyms
    \/ FormulateQuery
    \/ SearchSemanticScholar
    \/ ComposeReport

Spec == Init /\ [][Next]_vars

(***************************************************************************)
(* Vocabulary of the properties                                           *)
(***************************************************************************)
\* the primary terms the request leads to, read from the extractor's response
Primary == FirstTerms(stub.keywords.phrases)

\* get_bert_synonyms has returned
SynonymsReturned == fetch_calls > 0 /\ pc \in {"join", "search", "compose", "done"}

\* formulate_search_query has returned
Formulated == fetch_calls > 0 /\ pc \in {"search", "compose", "done"}

\* the candidates of the i-th primary term that the similarity stub scores above 0.6
Accepted(i) ==
    IF stub.syn[i].fault # "none" THEN {}
    ELSE {c \in SynonymSet(Primary[i]) : stub.syn[i].sim[c] > SimThreshold}

\* the terms of the string cut at n characters: the terms that fit, then the
\* part of the next term that is left before the cut
RECURSIVE CutTerms(_, _)
CutTerms(terms, n) ==
    IF terms = <<>> THEN <<>>
    ELSE IF Len(Head(terms)) <= n
         THEN <<Head(terms)>> \o CutTerms(Tail(terms), n - Len(Head(terms)) - 1)
         ELSE IF n > 0 THEN <<SubSeq(Head(terms), 1, n)>> ELSE <<>>

\* the terms of the returned query
FinalTerms == CutTerms(query_terms, MaxQueryLen)

\* the accepted candidates of a term in the order WordNet lists its lemmas
RECURSIVE InLemmaOrder(_, _)
InLemmaOrder(lemmas, i) ==
    IF lemmas = <<>> THEN <<>>
    ELSE (IF ReplaceUnderscore(Head(lemmas)) \in Accepted(i)
          THEN <<ReplaceUnderscore(Head(lemmas))>> ELSE <<>>)
         \o InLemmaOrder(Tail(lemmas), i)

\* the accepted synonyms in first-encountered order: primary terms in order,
\* then each term's candidates in order
RECURSIVE FirstEncounteredFrom(_)
FirstEncounteredFrom(i) ==
    IF i > Len(Primary) THEN <<>>
    ELSE InLemmaOrder(Lemmas(Primary[i]), i) \o FirstEncounteredFrom(i + 1)

FirstEncountered == Dedup(FirstEncounteredFrom(1))

\* q starts with the keywords joined by spaces, and a further term follows a space
StartsWithKeywords(kws, q) ==
    /\ IsPrefix(Join(kws), q)
    /\ Len(q) > Len(Join(kws)) /\ kws # <<>> => q[Len(Join(kws)) + 1] = " "

Max(S) == CHOOSE m \in S : \A x \in S : x <= m

\* the highest score the classifier returned
TopScore == Max(Range(stub.emotion.scores))

\* the highest of the other scores
SecondScore ==
    LET scores == stub.emotion.scores
        k == CHOOSE k \in 1..Len(scores) : scores[k] = TopScore
    IN  Max({scores[j] : j \in 1..Len(scores) \ {k}})

Answered == pc = "done" /\ status = 200

(***************************************************************************)
(* Properties                                                             *)
(***************************************************************************)
\* C1: the query returned by formulate_search_query is at most 300 characters
\* long, whatever the keywords and the synonyms.
C1_QueryLength == Len(query) <= MaxQueryLen

C1_Witness ==
    /\ Formulated
    /\ Len(Join(query_terms)) > MaxQueryLen
    /\ Len(query) = MaxQueryLen

\* C2: the terms of the returned query, the string handed to the fetcher, are
\* pairwise different.
C2_NoDuplicateTerms == Formulated => NoDup(FinalTerms)

\* C3: a failing literature search (timeout, non-2xx status, malformed body)
\* gives an empty result and the request still ends with a report whose
\* academic_sources is empty, not with status 500.
C3_SearchFailureIsSoft ==
    pc = "done" /\ http_calls > 0 /\ stub.endpoint.kind # "ok"
        => status = 200 /\ report.produced /\ report.academic_sources = <<>>

\* C4: when the extractor returns no keyword and find_sources is true, the
\* fetcher is never invoked and the report's academic_sources is empty.
C4_NoFetchWithoutKeywords ==
    stub.keywords.ok /\ stub.keywords.phrases = <<>> /\ request.find_sources
        => /\ fetch_calls = 0
           /\ http_calls = 0
           /\ Answered => report.academic_sources = <<>>

C4_Witness ==
    /\ Answered
    /\ request.find_sources
    /\ stub.keywords.ok /\ keywords = <<>>
    /\ report.academic_sources = <<>>

\* C5: every synonym get_bert_synonyms holds or returns is a WordNet candidate
\* of some primary term that the similarity stub scored strictly above 0.6
\* for that term.
C5_AcceptedAboveThreshold ==
    \A s \in synonyms \cup Range(expanded_synonyms) :
        \E i \in 1..Len(Primary) :
            /\ stub.syn[i].fault = "none"
            /\ s \in SynonymSet(Primary[i])
            /\ stub.syn[i].sim[s] > SimThreshold

C5_Witness ==
    /\ pc = "join"
    /\ expanded_synonyms # <<>>
    /\ \E i \in 1..Len(Primary) : \E c \in SynonymSet(Primary[i]) :
          /\ stub.syn[i].fault = "none"
          /\ stub.syn[i].sim[c] = SimThreshold
          /\ c \notin Range(expanded_synonyms)

\* C6: the query is determined by the inputs and the stubbed responses: the
\* accepted synonyms stand in first-encountered order.
C6_DeterministicQuery ==
    Formulated =>
        /\ expanded_synonyms = FirstEncountered
        /\ query = Truncate(Join(Dedup(Primary \o FirstEncountered)), MaxQueryLen)

\* C7: a primary term whose lookup or embedding fails contributes nothing,
\* get_bert_synonyms still returns, and every other term, before and after,
\* contributes exactly its accepted candidates.
C7_PerTermIsolation ==
    /\ pc \in {"lookup", "encode", "join"} => status = 0
    /\ SynonymsReturned =>
          Range(expanded_synonyms) = UNION {Accepted(i) : i \in 1..Len(Primary)}

C7_Witness ==
    /\ pc = "join"
    /\ Len(Primary) = 3
    /\ stub.syn[2].fault # "none"
    /\ Accepted(1) # {}
    /\ Accepted(3) \ Accepted(1) # {}
    /\ Range(expanded_synonyms) = Accepted(1) \cup Accepted(3)

\* C8 as stated: for a keyword list of at most 3 keywords the query starts with
\* the keywords, in order and unchanged, ahead of any synonym.
C8_KeywordPrefix ==
    Formulated /\ Len(keywords) <= PrimaryCount => StartsWithKeywords(keywords, query)

\* C8 amended: it does when the keywords are pairwise different and, joined by
\* spaces, at most 300 characters long.
C8_KeywordPrefixWhenFits ==
    /\ Formulated
    /\ Len(keywords) <= PrimaryCount
    /\ NoDup(keywords)
    /\ Len(Join(keywords)) <= MaxQueryLen
    => StartsWithKeywords(keywords, query)

C8_Witness ==
    /\ Formulated
    /\ Len(keywords) = PrimaryCount
    /\ Len(Join(keywords)) <= MaxQueryLen
    /\ Len(query) > Len(Join(keywords))
    /\ StartsWithKeywords(keywords, query)

\* C9: is_mixed is true exactly when the classifier returned at least 2
\* emotions and the two highest scores are strictly less than 0.2 apart.
C9_IsMixed ==
    Answered =>
        /\ report.is_mixed
             = (Len(stub.emotion.scores) >= 2 /\ TopScore - SecondScore < MixedGap)
        /\ stub.emotion.scores = <<950, 400, 100>> => ~report.is_mixed
        /\ stub.emotion.scores = <<550, 450>> => report.is_mixed
        /\ Len(stub.emotion.scores) = 1 => ~report.is_mixed

C9_Witness ==
    /\ Answered
    /\ report.is_mixed
    /\ Len(stub.emotion.scores) = 3
    /\ stub.emotion.scores[1] < stub.emotion.scores[3]

\* C10: the search endpoint is contacted at most once per request, and only
\* when the key matched, the trimmed text has 1..1000 characters, both
\* classifiers and the extractor returned, find_sources is true and there is
\* a keyword; a request answered 401, 400 or after a failed classification
\* never reaches it.
C10_EndpointOnceAfterChecks ==
    /\ http_calls <= 1
    /\ http_calls > 0 =>
          /\ request.key_ok
          /\ Strip(request.text) \in 1..MaxTextLen /\ text = Strip(request.text)
          /\ stub.emotion.ok /\ sorted_emotions # <<>>
          /\ stub.sentiment.ok /\ sentiment_result.ok
          /\ stub.keywords.ok /\ keywords = stub.keywords.phrases
          /\ request.find_sources
          /\ keywords # <<>>
    /\ status \in {400, 401} => http_calls = 0
    /\ ~(stub.emotion.ok /\ stub.sentiment.ok /\ stub.keywords.ok) => http_calls = 0

C10_Witness ==
    /\ Answered
    /\ http_calls = 1
    /\ RawLen(request.text) > MaxTextLen
====
